---- MODULE Spec2Model ----
(***************************************************************************)
(* A model of name.py: a command-line program that strips every character  *)
(* outside A-Za-z from its input and prints the permutations of the        *)
(* remaining letters, deduplicated unless --allow-duplicates is given and  *)
(* cut short after --max lines.                                            *)
(*                                                                         *)
(* Characters are their ASCII code points, strings are sequences of code   *)
(* points.  One behaviour of Spec is one run of main(); the environment    *)
(* (the reader of standard output) may close the pipe at any moment of the *)
(* output loop or after it.                                                *)
(***************************************************************************)
EXTENDS Integers, Sequences, FiniteSets, TLC

VARIABLES
    args_given,        \* a positional argument is present on the command line
    args_input,        \* its value (<<>> when absent)
    args_allow,        \* args.allow_duplicates
    args_max,          \* args.max
    stdin,             \* the content of standard input
    stdin_read,        \* sys.stdin.read() was called
    pc,                \* position of main()
    raw,               \* main: raw
    cleaned,           \* main: cleaned
    warned,            \* the length warning was printed
    it_created,        \* a permutation generator exists
    it_idx,            \* itertools.permutations: the index tuple last produced
    it_done,           \* itertools.permutations is exhausted
    seen,              \* distinct_permutations: seen
    fetches,           \* tuples taken from itertools.permutations so far
    perm,              \* main: perm, the string the generator yielded
    printed,           \* main: printed
    total_possible,    \* main: total_possible
    stdout,            \* the lines print() has written to standard output
    stderr,            \* the messages written to standard error
    pending,           \* the stdout buffer holds bytes not yet delivered
    pipe_closed,       \* the reader of standard output has gone away
    caught,            \* the except BrokenPipeError clause ran
    exit_status        \* the process's exit status (-1 while running)

vars == <<args_given, args_input, args_allow, args_max, stdin, stdin_read, pc,
          raw, cleaned, warned, it_created, it_idx, it_done, seen, fetches,
          perm, printed, total_possible, stdout, stderr, pending, pipe_closed,
          caught, exit_status>>

-----------------------------------------------------------------------------
(* Bounds of the model *)

\* longest command-line argument (but for LongInput) and longest cleaned
\* string whose enumeration is run to its end
MaxLen == 3

\* largest value of --max; the smallest is -1
MaxCap == 2

\* longest raw string given to clean_input on its own
MaxRawLen == 3

\* n > 9 in main: the length above which the warning is printed
WarnLen == 9

\* 'A', 'a', 'b' and the digit '1'
Alphabet == {65, 97, 98, 49}

\* '1', '@', 'A', 'Z', '[', '`', 'a', 'z', '{': the letters' range ends and
\* their neighbours
CleanAlphabet == {49, 64, 65, 90, 91, 96, 97, 122, 123}

Strings(alphabet, maxlen) == UNION {[1..k -> alphabet] : k \in 0..maxlen}

\* a string of letters longer than WarnLen: "abababab.."
LongInput == [i \in 1..(WarnLen + 1) |-> IF i % 2 = 1 THEN 97 ELSE 98]

ArgInputs == Strings(Alphabet, MaxLen) \cup {LongInput}

\* "", "1", "b1a"
StdinInputs == {<<>>, <<49>>, <<98, 49, 97>>}

MaxValues == (0 - 1)..MaxCap

RECURSIVE Factorial(_)
Factorial(n) == IF n <= 1 THEN 1 ELSE n * Factorial(n - 1)

\* tuples the model takes from one generator: enough to exhaust the
\* enumeration of every string of MaxLen letters
FetchBound == Factorial(MaxLen) + 1

Max(S) == CHOOSE x \in S : \A y \in S : y <= x
Min2(a, b) == IF a <= b THEN a ELSE b
Max2(a, b) == IF a >= b THEN a ELSE b

-----------------------------------------------------------------------------
(* The pure functions of name.py *)

\* LETTER_RE = re.compile(r"[^A-Za-z]"): the characters the pattern matches.
\* The mutant reads the class as [^A-z].
LETTER_RE_AtoZ(c) == ~(c >= 65 /\ c <= 122)
LETTER_RE(c) == ~((c >= 65 /\ c <= 90) \/ (c >= 97 /\ c <= 122))

\* LETTER_RE.sub("", raw): every match is replaced by the empty string
NonMatch(c) == ~LETTER_RE(c)
clean_input(s) == SelectSeq(s, NonMatch)

\* Counter(s): the multiplicity of every character of s
Counter(s) ==
    [c \in {s[i] : i \in 1..Len(s)} |-> Cardinality({i \in 1..Len(s) : s[i] = c})]

RECURSIVE ProdFact(_, _)
ProdFact(freq, keys) ==
    IF keys = {} THEN 1
    ELSE LET k == CHOOSE x \in keys : TRUE
         IN  Factorial(freq[k]) * ProdFact(freq, keys \ {k})

\* the mutant forgets the division by the multiplicities
unique_count_nodiv(s) == Factorial(Len(s))
unique_count(s) ==
    LET n == Len(s)
        freq == Counter(s)
        denom == ProdFact(freq, DOMAIN freq)
    IN  Factorial(n) \div denom

\* itertools.permutations(s): index tuples in lexicographic order, starting
\* from the identity.  The successor of the tuple p, or <<>> after the last.
FirstIndexPerm(n) == [i \in 1..n |-> i]
\* the mutant swaps the pivot and forgets to reverse the tail
NextIndexPermNoReverse(p) ==
    LET n == Len(p)
        pivots == {i \in 1..(n - 1) : p[i] < p[i + 1]}
    IN  IF pivots = {} THEN <<>>
        ELSE LET i == Max(pivots)
                 j == Max({k \in (i + 1)..n : p[k] > p[i]})
             IN  [p EXCEPT ![i] = p[j], ![j] = p[i]]
NextIndexPerm(p) ==
    LET n == Len(p)
        pivots == {i \in 1..(n - 1) : p[i] < p[i + 1]}
    IN  IF pivots = {} THEN <<>>
        ELSE LET i == Max(pivots)
                 j == Max({k \in (i + 1)..n : p[k] > p[i]})
                 swapped == [p EXCEPT ![i] = p[j], ![j] = p[i]]
             IN  [k \in 1..n |-> IF k <= i THEN swapped[k]
                                 ELSE swapped[n + i + 1 - k]]

\* "".join(tup) for the tuple of the characters of s at the indices p
\* The mutant joins the tuple's first character with itself.
JoinFirst(p, s) == [i \in 1..Len(p) |-> s[p[1]]]
Join(p, s) == [i \in 1..Len(p) |-> s[p[i]]]

\* if args.input: a missing argument (None) and "" are both false
Truthy(given, s) == given /\ s # <<>>

\* if perm in seen: continue
\* The mutant compares with the string yielded last only.
InSeenPrev(p, S) == p = perm
InSeen(p, S) == p \in S

\* if args.max and printed >= args.max: break
\* The mutant tests printed > args.max.
BreakNowLate(max, n) == max # 0 /\ n > max
BreakNow(max, n) == max # 0 /\ n >= max

\* n > 9 and not args.max
\* The mutant tests args.max <= 0 for "no limit".
WarnNowNeg(n, max) == n > WarnLen /\ max <= 0
WarnNow(n, max) == n > WarnLen /\ max = 0

-----------------------------------------------------------------------------
(* One run of main() *)

Init ==
    /\ args_given \in BOOLEAN
    /\ args_input \in ArgInputs
    /\ (~args_given => args_input = <<>>)
    /\ args_allow \in BOOLEAN
    /\ args_max \in MaxValues
    /\ stdin \in StdinInputs
    /\ stdin_read = FALSE
    /\ pc = "start"
    /\ raw = <<>>
    /\ cleaned = <<>>
    /\ warned = FALSE
    /\ it_created = FALSE
    /\ it_idx = <<>>
    /\ it_done = FALSE
    /\ seen = {}
    /\ fetches = 0
    /\ perm = <<>>
    /\ printed = 0
    /\ total_possible = 0
    /\ stdout = <<>>
    /\ stderr = <<>>
    /\ pending = FALSE
    /\ pipe_closed = FALSE
    /\ caught = FALSE
    /\ exit_status = 0 - 1

\* args = parse_args(); raw = args.input if args.input else sys.stdin.read()
ReadInput ==
    /\ pc = "start"
    /\ IF Truthy(args_given, args_input)
       THEN raw' = args_input /\ stdin_read' = FALSE
       ELSE raw' = stdin /\ stdin_read' = TRUE
    /\ pc' = "clean"
    /\ UNCHANGED <<args_given, args_input, args_allow, args_max, stdin, cleaned,
                   warned, it_created, it_idx, it_done, seen, fetches, perm,
                   printed, total_possible, stdout, stderr, pending,
                   pipe_closed, caught, exit_status>>

\* cleaned = clean_input(raw); if not cleaned: print(..., file=sys.stderr);
\* sys.exit(1)
Clean ==
    /\ pc = "clean"
    /\ cleaned' = clean_input(raw)
    /\ IF cleaned' = <<>>
       THEN /\ stderr' = Append(stderr, "no letters")
            /\ exit_status' = 1
            /\ pc' = "exited"
       ELSE /\ pc' = "setup"
            /\ UNCHANGED <<stderr, exit_status>>
    /\ UNCHANGED <<args_given, args_input, args_allow, args_max, stdin,
                   stdin_read, raw, warned, it_created, it_idx, it_done, seen,
                   fetches, perm, printed, total_possible, stdout, pending,
                   pipe_closed, caught>>

\* n = len(cleaned) ... printed = 0: the warning, the generator, the count
\* and the messages on standard error
Setup ==
    /\ pc = "setup"
    /\ LET n == Len(cleaned)
           w == WarnNow(n, args_max)
       IN  /\ warned' = w
           /\ total_possible' = IF args_allow THEN Factorial(n)
                                ELSE unique_count(cleaned)
           /\ stderr' = stderr
                          \o (IF w THEN <<"warning">> ELSE <<>>)
                          \o <<"cleaned", "count">>
                          \o (IF args_max # 0 THEN <<"max">> ELSE <<>>)
    /\ it_created' = TRUE
    /\ printed' = 0
    /\ pc' = "loop"
    /\ UNCHANGED <<args_given, args_input, args_allow, args_max, stdin,
                   stdin_read, raw, cleaned, it_idx, it_done, seen, fetches,
                   perm, stdout, pending, pipe_closed, caught, exit_status>>

\* the next tuple of itertools.permutations(cleaned), <<>> when there is none
NextTuple ==
    IF it_idx = <<>> THEN FirstIndexPerm(Len(cleaned)) ELSE NextIndexPerm(it_idx)

\* for tup in itertools.permutations(s): the enumeration is exhausted, the
\* generator returns and the for loop of main ends
StopIteration ==
    /\ pc = "loop"
    /\ fetches < FetchBound
    /\ NextTuple = <<>>
    /\ it_done' = TRUE
    /\ fetches' = fetches + 1
    /\ pc' = "finalize"
    /\ UNCHANGED <<args_given, args_input, args_allow, args_max, stdin,
                   stdin_read, raw, cleaned, warned, it_created, it_idx, seen,
                   perm, printed, total_possible, stdout, stderr, pending,
                   pipe_closed, caught, exit_status>>

\* all_permutations: yield "".join(tup)
NextAll ==
    /\ pc = "loop"
    /\ fetches < FetchBound
    /\ args_allow
    /\ NextTuple # <<>>
    /\ it_idx' = NextTuple
    /\ fetches' = fetches + 1
    /\ perm' = Join(NextTuple, cleaned)
    /\ pc' = "print"
    /\ UNCHANGED <<args_given, args_input, args_allow, args_max, stdin,
                   stdin_read, raw, cleaned, warned, it_created, it_done, seen,
                   printed, total_possible, stdout, stderr, pending,
                   pipe_closed, caught, exit_status>>

\* distinct_permutations: perm = "".join(tup); if perm in seen: continue;
\* seen.add(perm); yield perm
NextDistinct ==
    /\ pc = "loop"
    /\ fetches < FetchBound
    /\ ~args_allow
    /\ NextTuple # <<>>
    /\ it_idx' = NextTuple
    /\ fetches' = fetches + 1
    /\ LET p == Join(NextTuple, cleaned)
       IN  IF InSeen(p, seen)
           THEN UNCHANGED <<seen, perm, pc>>
           ELSE /\ seen' = seen \cup {p}
                /\ perm' = p
                /\ pc' = "print"
    /\ UNCHANGED <<args_given, args_input, args_allow, args_max, stdin,
                   stdin_read, raw, cleaned, warned, it_created, it_done,
                   printed, total_possible, stdout, stderr, pending,
                   pipe_closed, caught, exit_status>>

\* print(perm); printed += 1; if args.max and printed >= args.max: break
\* The line goes to the stdout buffer, which print may or may not flush to
\* the pipe; the flush succeeds while the reader is there.
PrintLine ==
    /\ pc = "print"
    /\ \E flush \in BOOLEAN :
          /\ ~(flush /\ pipe_closed)
          /\ pending' = ~flush
    /\ stdout' = Append(stdout, perm)
    /\ printed' = printed + 1
    /\ pc' = IF BreakNow(args_max, printed') THEN "finalize" ELSE "loop"
    /\ UNCHANGED <<args_given, args_input, args_allow, args_max, stdin,
                   stdin_read, raw, cleaned, warned, it_created, it_idx,
                   it_done, seen, fetches, perm, total_possible, stderr,
                   pipe_closed, caught, exit_status>>

\* print(perm) flushes the buffer to a pipe whose reader is gone: it raises
\* BrokenPipeError, and except BrokenPipeError: pass ends the loop.  The
\* buffer may or may not keep the bytes it could not deliver.
PrintBrokenPipe ==
    /\ pc = "print"
    /\ pipe_closed
    /\ caught' = TRUE
    /\ pending' \in BOOLEAN
    /\ pc' = "finalize"
    /\ UNCHANGED <<args_given, args_input, args_allow, args_max, stdin,
                   stdin_read, raw, cleaned, warned, it_created, it_idx,
                   it_done, seen, fetches, perm, printed, total_possible,
                   stdout, stderr, pipe_closed, exit_status>>

\* main() has returned and the interpreter exits: it flushes standard output.
\* A flush to a closed pipe fails outside the try block of main: the
\* interpreter reports the ignored BrokenPipeError and exits with status 120.
Finalize ==
    /\ pc = "finalize"
    /\ IF pending /\ pipe_closed
       THEN /\ stderr' = Append(stderr, "Exception ignored: BrokenPipeError")
            /\ exit_status' = 120
       ELSE /\ exit_status' = 0
            /\ UNCHANGED stderr
    /\ pending' = FALSE
    /\ pc' = "exited"
    /\ UNCHANGED <<args_given, args_input, args_allow, args_max, stdin,
                   stdin_read, raw, cleaned, warned, it_created, it_idx,
                   it_done, seen, fetches, perm, printed, total_possible,
                   stdout, pipe_closed, caught>>

\* the consumer of standard output stops reading, during or after the loop
ClosePipe ==
    /\ pc \in {"loop", "print", "finalize"}
    /\ ~pipe_closed
    /\ pipe_closed' = TRUE
    /\ UNCHANGED <<args_given, args_input, args_allow, args_max, stdin,
                   stdin_read, pc, raw, cleaned, warned, it_created, it_idx,
                   it_done, seen, fetches, perm, printed, total_possible,
                   stdout, stderr, pending, caught, exit_status>>

Next ==
    \/ ReadInput
    \/ Clean
    \/ Setup
    \/ StopIteration
    \/ NextAll
    \/ NextDistinct
    \/ PrintLine
    \/ PrintBrokenPipe
    \/ Finalize
    \/ ClosePipe

Spec == Init /\ [][Next]_vars

-----------------------------------------------------------------------------
(* clean_input on its own: every raw string over CleanAlphabet *)

InitClean ==
    /\ args_given = FALSE
    /\ args_input = <<>>
    /\ args_allow = FALSE
    /\ args_max = 0
    /\ stdin = <<>>
    /\ stdin_read = FALSE
    /\ pc = "call clean_input"
    /\ raw \in Strings(CleanAlphabet, MaxRawLen)
    /\ cleaned = <<>>
    /\ warned = FALSE
    /\ it_created = FALSE
    /\ it_idx = <<>>
    /\ it_done = FALSE
    /\ seen = {}
    /\ fetches = 0
    /\ perm = <<>>
    /\ printed = 0
    /\ total_possible = 0
    /\ stdout = <<>>
    /\ stderr = <<>>
    /\ pending = FALSE
    /\ pipe_closed = FALSE
    /\ caught = FALSE
    /\ exit_status = 0 - 1

\* cleaned = clean_input(raw)
CallClean ==
    /\ pc = "call clean_input"
    /\ cleaned' = clean_input(raw)
    /\ pc' = "returned"
    /\ UNCHANGED <<args_given, args_input, args_allow, args_max, stdin,
                   stdin_read, raw, warned, it_created, it_idx, it_done, seen,
                   fetches, perm, printed, total_possible, stdout, stderr,
                   pending, pipe_closed, caught, exit_status>>

NextClean == CallClean

SpecClean == InitClean /\ [][NextClean]_vars

-----------------------------------------------------------------------------
(* What the properties are stated against *)

\* the letters A-Z and a-z
Letters == (65..90) \cup (97..122)

Range(seq) == {seq[i] : i \in 1..Len(seq)}

Occurrences(seq, w) == Cardinality({i \in 1..Len(seq) : seq[i] = w})

\* the n! arrangements of the positions 1..n
Arrangements ==
    [n \in 0..MaxLen |->
        {p \in [1..n -> 1..n] : \A i, j \in 1..n : i # j => p[i] # p[j]}]

\* the strings of at most MaxLen letters of Alphabet
LetterStrings == Strings(Alphabet \cap Letters, MaxLen)

\* the orderings of s, as strings
Orderings(s) == {[i \in 1..Len(s) |-> s[p[i]]] : p \in Arrangements[Len(s)]}

\* the k-th (from 0) arrangement of the ascending sequence items, in
\* lexicographic order, by its factorial-base digits
RECURSIVE Unrank(_, _)
Unrank(items, k) ==
    IF items = <<>> THEN <<>>
    ELSE LET m == Len(items)
             f == Factorial(m - 1)
             d == k \div f
             rest == [i \in 1..(m - 1) |-> IF i <= d THEN items[i] ELSE items[i + 1]]
         IN  <<items[d + 1]>> \o Unrank(rest, k % f)

\* the n! orderings of s in lexicographic order of their positions
AllRef ==
    [s \in LetterStrings |->
        [k \in 1..Factorial(Len(s)) |->
            LET p == Unrank([i \in 1..Len(s) |-> i], k - 1)
            IN  [i \in 1..Len(s) |-> s[p[i]]]]]

\* the positions of seq that hold a string for the first time
FirstOccurrences(seq) ==
    {i \in 1..Len(seq) : \A j \in 1..(i - 1) : seq[j] # seq[i]}

\* seq restricted to the positions I, in order
Pick(seq, I) ==
    [k \in 1..Cardinality(I) |->
        seq[CHOOSE i \in I : Cardinality({j \in I : j <= i}) = k]]

\* AllRef with every string that appeared earlier removed
DistinctRef ==
    [s \in LetterStrings |-> Pick(AllRef[s], FirstOccurrences(AllRef[s]))]

\* what a run without a cap emits
UncappedRef(s, allow) == IF allow THEN AllRef[s] ELSE DistinctRef[s]

\* the run is over and its loop was not ended by a BrokenPipeError
EndedNormally == pc = "exited" /\ cleaned # <<>> /\ ~caught

\* the enumeration of the cleaned string is within the model's reach
Enumerable == cleaned \in LetterStrings

-----------------------------------------------------------------------------
(* The properties *)

\* C1: a run without a cap that ends normally has printed n! lines in all
\* mode, one for every arrangement of the n positions, and unique_count
\* lines in distinct mode; unique_count is the number of distinct orderings
\* (n! over the product of the multiplicities' factorials, 'A' and 'a' being
\* different characters) and is at most n!.
C1_OutputCounts ==
    (EndedNormally /\ Enumerable /\ args_max = 0) =>
        LET n == Len(cleaned)
        IN  /\ unique_count(cleaned) = Cardinality(Orderings(cleaned))
            /\ unique_count(cleaned) <= Factorial(n)
            /\ total_possible = IF args_allow THEN Factorial(n)
                                ELSE unique_count(cleaned)
            /\ IF args_allow
               THEN /\ Len(stdout) = Factorial(n)
                    /\ \A w \in Orderings(cleaned) \cup Range(stdout) :
                          Occurrences(stdout, w) =
                              Cardinality({q \in Arrangements[n] :
                                  [i \in 1..n |-> cleaned[q[i]]] = w})
               ELSE Len(stdout) = unique_count(cleaned)

\* a distinct-mode run on three letters, two of them equal, has ended
C1_Witness ==
    /\ EndedNormally /\ args_max = 0 /\ ~args_allow
    /\ Len(cleaned) = 3 /\ Cardinality(Range(cleaned)) = 2
    /\ Len(stdout) = 3

\* C2: in distinct mode no line is ever printed twice, and a run without a
\* cap that ends normally has printed every distinct ordering of the cleaned
\* string.
C2_DistinctExactlyOnce ==
    ~args_allow =>
        /\ \A i, j \in 1..Len(stdout) : i # j => stdout[i] # stdout[j]
        /\ (EndedNormally /\ Enumerable /\ args_max = 0) =>
               Range(stdout) = Orderings(cleaned)

\* a distinct-mode run on a string with a repeated letter has printed all of
\* its orderings
C2_Witness ==
    /\ EndedNormally /\ args_max = 0 /\ ~args_allow
    /\ Len(cleaned) = 3 /\ Cardinality(Range(cleaned)) = 2
    /\ Range(stdout) = Orderings(cleaned)
    /\ fetches > Len(stdout) + 1

\* C3: every line on standard output has the length and the character
\* frequencies of the cleaned input, and a run with no letters prints no
\* line.
C3_LinesAreReorderings ==
    /\ \A i \in 1..Len(stdout) :
          /\ Len(stdout[i]) = Len(cleaned)
          /\ \A c \in Range(cleaned) \cup Range(stdout[i]) :
                Occurrences(stdout[i], c) = Occurrences(cleaned, c)
    /\ (cleaned = <<>> => stdout = <<>>)

\* two lines of a string with mixed case and a repeated letter are out
C3_Witness ==
    /\ Len(stdout) >= 2
    /\ stdout[2] # stdout[1]
    /\ Cardinality(Range(cleaned)) < Len(cleaned)
    /\ 65 \in Range(cleaned)

\* C4: with a cap M > 0 the lines printed are always the first lines of the
\* uncapped output and never more than M; a run that ends normally has
\* printed min(M, T) of them; and once M lines are printed the generator is
\* not advanced again.
C4_State ==
    args_max > 0 =>
        /\ Len(stdout) <= args_max
        /\ Enumerable =>
              LET ref == UncappedRef(cleaned, args_allow)
              IN  /\ Len(stdout) <= Len(ref)
                  /\ \A i \in 1..Len(stdout) : stdout[i] = ref[i]
                  /\ EndedNormally => Len(stdout) = Min2(args_max, Len(ref))

C4_Step ==
    (args_max > 0 /\ printed >= args_max) =>
        UNCHANGED <<it_idx, it_done, seen, fetches, perm, stdout, printed>>

C4_CapIsPrefixAndStops == [](C4_State) /\ [][C4_Step]_vars

\* a capped run has stopped at its cap with orderings left to produce
C4_Witness ==
    /\ EndedNormally /\ Enumerable
    /\ args_max = 2 /\ Len(stdout) = 2
    /\ Len(UncappedRef(cleaned, args_allow)) > 2
    /\ ~it_done

\* C5: a run whose standard output was closed by its reader exits with
\* status 0 and reports no error.
C5_ClosedPipeExitsCleanly ==
    (pc = "exited" /\ pipe_closed) =>
        /\ exit_status = 0
        /\ "Exception ignored: BrokenPipeError" \notin Range(stderr)

\* C6: a run whose cleaned input is empty reports the error, exits with
\* status 1, prints no line and never creates or advances a generator; every
\* other run does not take this path and exits with status 0.
C6_EmptyInputOnlyFailure ==
    pc = "exited" =>
        IF cleaned = <<>>
        THEN /\ exit_status = 1
             /\ stderr = <<"no letters">>
             /\ stdout = <<>>
             /\ ~it_created /\ fetches = 0 /\ it_idx = <<>>
        ELSE /\ "no letters" \notin Range(stderr)
             /\ exit_status = 0

\* the empty-input half of C6 on its own: it holds of every run
C6_EmptyInputPath ==
    (pc = "exited" /\ cleaned = <<>>) =>
        /\ exit_status = 1
        /\ stderr = <<"no letters">>
        /\ stdout = <<>>
        /\ ~it_created /\ fetches = 0 /\ it_idx = <<>>

\* C7: clean_input(raw) is the subsequence of the letters of raw: as long as
\* the number of letters of raw, its k-th character the k-th letter of raw.
C7_CleanIsLetterSubsequence ==
    pc = "returned" =>
        LET L == {i \in 1..Len(raw) : raw[i] \in Letters}
        IN  /\ Len(cleaned) = Cardinality(L)
            /\ \A i \in L : cleaned[Cardinality({j \in L : j <= i})] = raw[i]
            /\ (L = {} => cleaned = <<>>)

\* a raw string with a letter between two characters next to the letters'
\* range has been cleaned
C7_Witness ==
    /\ pc = "returned"
    /\ Len(raw) = 3 /\ raw[1] = 91 /\ raw[2] \in Letters /\ raw[3] = 96
    /\ cleaned = <<raw[2]>>

\* C8: a run without a cap that ends normally has printed, in all mode, the
\* orderings in lexicographic order of their positions and, in distinct
\* mode, that sequence with every string that appeared earlier removed.
C8_DistinctIsAllDeduplicated ==
    (EndedNormally /\ Enumerable /\ args_max = 0) =>
        IF args_allow
        THEN stdout = AllRef[cleaned]
        ELSE stdout = Pick(AllRef[cleaned], FirstOccurrences(AllRef[cleaned]))

\* a distinct-mode run has skipped duplicates between two of its lines
C8_Witness ==
    /\ EndedNormally /\ Enumerable /\ args_max = 0 /\ ~args_allow
    /\ Len(stdout) = 3
    /\ stdout # SubSeq(AllRef[cleaned], 1, 3)

\* C9: the raw input is the positional argument whenever one is given, and
\* standard input is read exactly when none is given.
C9_ArgumentOverStdin ==
    pc # "start" =>
        /\ stdin_read = ~args_given
        /\ raw = IF args_given THEN args_input ELSE stdin

\* C10: a run that ends normally has printed T lines when N = 0 and
\* min(T, max(1, N)) lines otherwise, a negative N printing the first line of
\* the enumeration alone; the warning is printed exactly when the cleaned
\* string is longer than 9 and N = 0.
C10_CapValues ==
    /\ (EndedNormally /\ Enumerable) =>
          LET T == Len(UncappedRef(cleaned, args_allow))
          IN  Len(stdout) = IF args_max = 0 THEN T
                            ELSE Min2(T, Max2(1, args_max))
    /\ (EndedNormally /\ args_max < 0) => stdout = <<cleaned>>
    /\ it_created =>
          /\ warned = (Len(cleaned) > WarnLen /\ args_max = 0)
          /\ warned = ("warning" \in Range(stderr))

\* a run with a negative cap on a string of more than 9 letters has ended
C10_Witness ==
    /\ EndedNormally /\ args_max < 0
    /\ Len(cleaned) > WarnLen
    /\ Len(stdout) = 1
    /\ ~warned

====
